---- MODULE Spec2Model ----
(***************************************************************************)
(* Model of helpers/multiaspect/image.py (class MultiaspectImage): the     *)
(* alignment rounder, the aspect ratio calculator, the edge-based and the  *)
(* area-based sizer with the shared resolution cache of StateTracker, and  *)
(* the interval adjuster.                                                  *)
(*                                                                         *)
(* Number representation.                                                  *)
(*   - A float aspect ratio is a record [n |-> n, d |-> AspectDen], the    *)
(*     double n / AspectDen.  AspectDen is a power of two, so the double   *)
(*     is exactly that rational, products and truncated quotients with     *)
(*     small integers are exact, and the arithmetic below (done on         *)
(*     integers) gives the results the float code gives.                   *)
(*   - A value handed to _round_to_nearest_multiple is a record            *)
(*     [c, n, d], the real number c * sqrt(n / d); an int v is             *)
(*     [c |-> v, n |-> 1, d |-> 1].                                        *)
(*   - A rounded aspect ratio (round(w / h, 2)) is the integer number of   *)
(*     hundredths, 1.06 is 106.                                            *)
(*   - megapixels is the integer number of pixels px, the float px / 1e6.  *)
(***************************************************************************)
EXTENDS Integers, FiniteSets

\* ---------------------------------------------------------------- bounds

\* the dimensions handed to the aspect ratio calculator range over
\* -MaxDim .. MaxDim
MaxDim == 4
\* the dimensions handed to the interval adjuster range over -1 .. MaxSide
MaxSide == 3
\* the coefficient c of a value c * sqrt(n / d) handed to the rounder
MaxValue == 9
\* the edge-based sizer's resolution ranges over 1 .. MaxEdge
MaxEdge == 4

\* ------------------------------------------------------- configuration

\* StateTracker.get_args().aspect_bucket_alignment, fixed for a run
Alignments == {1, 2}
\* denominator of the float aspect ratios the callers pass
AspectDen == 2 ^ 10
\* the default of calculate_image_aspect_ratio's rounding parameter, used
\* because aspect_bucket_rounding is None
Rounding == 2
RatioScale == 10 ^ Rounding

None == <<>>

\* --------------------------------------------------- Python arithmetic

Abs(x) == IF x < 0 THEN -x ELSE x
Max(a, b) == IF a >= b THEN a ELSE b
Sign(x) == IF x < 0 THEN -1 ELSE 1

\* int(sqrt(x)) for an integer x >= 0: the largest r with r * r <= x
RECURSIVE SqrtSearch(_, _, _)
SqrtSearch(x, lo, hi) ==
    IF lo >= hi THEN lo
    ELSE LET mid == (lo + hi + 1) \div 2
         IN  IF mid * mid <= x THEN SqrtSearch(x, mid, hi)
                               ELSE SqrtSearch(x, lo, mid - 1)

\* a bound on int(sqrt(x)): the least power of two whose square exceeds x
RECURSIVE SqrtCeiling(_, _)
SqrtCeiling(x, b) == IF b * b > x THEN b ELSE SqrtCeiling(x, 2 * b)

isqrt(x) == SqrtSearch(x, 0, SqrtCeiling(x, 1))

\* int(c * sqrt(n / d) / m) for c >= 0, the quotient truncated
round_sqrt_truncated(c, n, d, m) == isqrt((4 * c * c * n) \div (d * m * m)) \div 2

\* round(c * sqrt(n / d) / m) for c >= 0: with y = 2 * c * sqrt(n / d) / m,
\* the nearest integer is floor((floor(y) + 1) / 2), and the value is an
\* exact half when y is an odd integer
round_sqrt(c, n, d, m) ==
    LET P  == 4 * c * c * n
        Q  == d * m * m
        y  == isqrt(P \div Q)
        up == (y + 1) \div 2
    IN  IF y * y * Q = P /\ y % 2 = 1 /\ up % 2 = 1 THEN up - 1 ELSE up

\* floor(log2(p / q)) for integers p, q > 0
RECURSIVE Log2Up(_, _, _)
Log2Up(p, q, e) == IF 2 * q > p THEN e ELSE Log2Up(p, 2 * q, e + 1)
RECURSIVE Log2Down(_, _, _)
Log2Down(p, q, e) == IF p >= q THEN e ELSE Log2Down(2 * p, q, e - 1)
Log2Floor(p, q) == IF p >= q THEN Log2Up(p, q, 0) ELSE Log2Down(p, q, 0)

\* (x * 2 ^ t) % m
RECURSIVE ShiftMod(_, _, _)
ShiftMod(x, t, m) == IF t = 0 THEN x % m ELSE ShiftMod((2 * x) % m, t - 1, m)

\* Python's round(w / h, Rounding) in units of 10 ^ -Rounding, for integers
\* w >= 0 and h > 0.  w / h is the double nearest to the quotient and round
\* rounds that double correctly.  The quotient is an exact half only when
\* it is k / (2 * 10 ^ Rounding) with k odd; the double of such a quotient
\* is the quotient itself when 5 ^ Rounding divides k (then the half goes
\* to the even neighbour) and otherwise lies below or above it as the
\* remainder of its 53-bit significand modulo 5 ^ Rounding decides.
round_ratio(w, h) ==
    LET N    == RatioScale * w
        f    == N \div h
        r    == N % h
        k    == 2 * f + 1
        odd  == 5 ^ Rounding
        e    == Log2Floor(k, 2 * RatioScale)
        rest == ShiftMod(k % odd, 51 - e - Rounding, odd)
    IN  IF 2 * r < h THEN f
        ELSE IF 2 * r > h THEN f + 1
        ELSE IF rest = 0 THEN (IF f % 2 = 0 THEN f ELSE f + 1)
        ELSE IF 2 * rest < odd THEN f
        ELSE f + 1

\* int(x * aspect_ratio) and int(x / aspect_ratio) for an integer x >= 0
int_times(x, a) == (x * a.n) \div a.d
int_over(x, a) == (x * a.d) \div a.n

IntValue(v) == [c |-> v, n |-> 1, d |-> 1]
\* x * sqrt(aspect_ratio) and x / sqrt(aspect_ratio)
TimesSqrt(x, a) == [c |-> x, n |-> a.n, d |-> a.d]
OverSqrt(x, a) == [c |-> x, n |-> a.d, d |-> a.n]

\* ----------------------------------------------- MultiaspectImage

\* _round_to_nearest_multiple without the floor of one unit
_round_to_nearest_multiple_unclamped(value, multiple) ==
    Sign(value.c) * round_sqrt(Abs(value.c), value.n, value.d, multiple) * multiple

_round_to_nearest_multiple(value, multiple) ==
    LET rounded == Sign(value.c)
                     * round_sqrt(Abs(value.c), value.n, value.d, multiple)
                     * multiple
    IN  Max(rounded, multiple)

\* calculate_image_aspect_ratio for a (width, height) tuple: the rounded
\* quotient, or the ZeroDivisionError that width / height raises
calculate_image_aspect_ratio(image) ==
    LET width  == image[1]
        height == image[2]
    IN  IF height = 0
        THEN [status |-> "ZeroDivisionError", ratio |-> 0]
        ELSE [status |-> "ok",
              ratio  |-> Sign(width) * Sign(height)
                           * round_ratio(Abs(width), Abs(height))]

\* the float the calculator returns for a size with a non-zero height
aspect_of(size) == calculate_image_aspect_ratio(size).ratio

\* adjust_resolution_to_bucket_interval with the test W_diff == H_diff
\* left out of the first branch
adjust_resolution_to_bucket_interval_strict(initial_resolution, target_resolution) ==
    LET W_initial  == initial_resolution[1]
        H_initial  == initial_resolution[2]
        W_diff     == target_resolution[1] - W_initial
        H_diff     == target_resolution[2] - H_initial
    IN  IF W_diff > 0 /\ W_diff > H_diff
        THEN <<W_initial + W_diff, H_initial + W_diff>>
        ELSE IF H_diff > 0 /\ H_diff > W_diff
        THEN <<W_initial + H_diff, H_initial + H_diff>>
        ELSE <<W_initial, H_initial>>

adjust_resolution_to_bucket_interval(initial_resolution, target_resolution) ==
    LET W_initial  == initial_resolution[1]
        H_initial  == initial_resolution[2]
        W_adjusted == target_resolution[1]
        H_adjusted == target_resolution[2]
        W_diff     == W_adjusted - W_initial
        H_diff     == H_adjusted - H_initial
    IN  IF W_diff > 0 /\ (W_diff > H_diff \/ W_diff = H_diff)
        THEN <<W_initial + W_diff, H_initial + W_diff>>
        ELSE IF H_diff > 0 /\ H_diff > W_diff
        THEN <<W_initial + H_diff, H_initial + H_diff>>
        ELSE <<W_initial, H_initial>>

\* ---- calculate_new_size_by_pixel_edge

\* the potential initial size, by the orientation of the original
edge_initial_size(aspect_ratio, resolution, original_size) ==
    IF original_size[1] < original_size[2]
    THEN <<resolution, int_over(resolution, aspect_ratio)>>
    ELSE <<int_times(resolution, aspect_ratio), resolution>>

\* bigger_difference taken as the smaller of the two differences
bigger_difference_min(reformed_W_diff, reformed_H_diff) ==
    IF reformed_W_diff <= reformed_H_diff THEN reformed_W_diff ELSE reformed_H_diff

bigger_difference(reformed_W_diff, reformed_H_diff) ==
    Max(reformed_W_diff, reformed_H_diff)

calculate_new_size_by_pixel_edge(aspect_ratio, resolution, original_size, multiple) ==
    LET initial    == edge_initial_size(aspect_ratio, resolution, original_size)
        W_initial  == initial[1]
        H_initial  == initial[2]
        W_adjusted == _round_to_nearest_multiple(IntValue(W_initial), multiple)
        H_adjusted == _round_to_nearest_multiple(IntValue(H_initial), multiple)
        diff       == bigger_difference(W_adjusted - W_initial, H_adjusted - H_initial)
    IN  [target       |-> <<W_adjusted, H_adjusted>>,
         intermediary |-> IF W_initial < W_adjusted \/ H_initial < H_adjusted
                          THEN <<W_initial + diff, H_initial + diff>>
                          ELSE <<W_initial, H_initial>>,
         ratio        |-> aspect_of(<<W_adjusted, H_adjusted>>)]

\* ---- the resolution cache of StateTracker: a mapping from
\* <<megapixels, aspect>> to a size

get_resolution_by_aspect(map, dataloader_resolution, aspect) ==
    IF <<dataloader_resolution, aspect>> \in DOMAIN map
    THEN map[<<dataloader_resolution, aspect>>]
    ELSE None

set_resolution_by_aspect(map, dataloader_resolution, aspect, resolution) ==
    [k \in DOMAIN map \cup {<<dataloader_resolution, aspect>>} |->
        IF k = <<dataloader_resolution, aspect>> THEN resolution ELSE map[k]]

\* ---- calculate_new_size_by_pixel_area

\* the square edge of the pixel area
target_pixel_edge(megapixels, multiple) ==
    _round_to_nearest_multiple(IntValue(isqrt(megapixels)), multiple)

\* the target size computed from the aspect ratio
computed_target(aspect_ratio, megapixels, multiple) ==
    LET edge == target_pixel_edge(megapixels, multiple)
    IN  <<_round_to_nearest_multiple(TimesSqrt(edge, aspect_ratio), multiple),
          _round_to_nearest_multiple(OverSqrt(edge, aspect_ratio), multiple)>>

\* the intermediary size that keeps the aspect ratio on the constraining
\* edge of a target
initial_intermediary(target, aspect_ratio) ==
    IF target[1] < target[2]
    THEN <<target[1], int_over(target[1], aspect_ratio)>>
    ELSE <<int_times(target[2], aspect_ratio), target[2]>>

\* the adjusted aspect ratio taken of the transposed target
adjusted_aspect_ratio_transposed(W_target, H_target) ==
    calculate_image_aspect_ratio(<<H_target, W_target>>).ratio

\* the aspect ratio of the computed target: the key of the static mapping
adjusted_aspect_ratio(W_target, H_target) ==
    calculate_image_aspect_ratio(<<W_target, H_target>>).ratio

\* the target with the cached value ignored
target_resolution_uncached(computed, previously_stored_resolution) ==
    computed

\* the target after the cache consult
target_resolution(computed, previously_stored_resolution) ==
    IF previously_stored_resolution # None
    THEN previously_stored_resolution
    ELSE computed

\* the intermediary grown until the target fits into it
repaired_intermediary(target, intermediary, aspect_ratio) ==
    LET W_target == target[1]
        H_target == target[2]
        W_intermediary == intermediary[1]
        H_intermediary == intermediary[2]
        W_diff == IF W_target > W_intermediary
                  THEN W_target - W_intermediary
                  ELSE int_times(H_target - H_intermediary, aspect_ratio)
        H_diff == IF W_target > W_intermediary
                  THEN int_over(W_target - W_intermediary, aspect_ratio)
                  ELSE H_target - H_intermediary
    IN  IF W_target > W_intermediary \/ H_target > H_intermediary
        THEN <<W_intermediary + W_diff, H_intermediary + H_diff>>
        ELSE intermediary

\* the size stored under the adjusted aspect ratio
stored_resolution(target, intermediary) == target

\* the call up to and including the cache read: the square case returns,
\* every other case goes on with the locals it has computed
area_read(aspect_ratio, megapixels, original_size, multiple, map) ==
    LET edge     == target_pixel_edge(megapixels, multiple)
        computed == computed_target(aspect_ratio, megapixels, multiple)
        adjusted == adjusted_aspect_ratio(computed[1], computed[2])
    IN  IF aspect_ratio.n = aspect_ratio.d
        THEN [square       |-> TRUE,
              target       |-> <<edge, edge>>,
              intermediary |-> original_size,
              ratio        |-> RatioScale,
              computed     |-> <<edge, edge>>,
              previously_stored_resolution |-> None]
        ELSE [square       |-> FALSE,
              target       |-> computed,
              intermediary |-> initial_intermediary(computed, aspect_ratio),
              ratio        |-> adjusted,
              computed     |-> computed,
              previously_stored_resolution |->
                  get_resolution_by_aspect(map, megapixels, adjusted)]

\* the rest of a call that is not square: the locals at the return
area_finish(aspect_ratio, locals) ==
    LET target == target_resolution(locals.computed,
                                    locals.previously_stored_resolution)
    IN  [locals EXCEPT
            !.target = target,
            !.intermediary = repaired_intermediary(target, locals.intermediary,
                                                   aspect_ratio)]

\* the cache after the call
area_write(megapixels, locals, map) ==
    IF ~locals.square /\ locals.previously_stored_resolution = None
    THEN set_resolution_by_aspect(map, megapixels, locals.ratio,
             stored_resolution(locals.target, locals.intermediary))
    ELSE map

calculate_new_size_by_pixel_area(aspect_ratio, megapixels, original_size, multiple, map) ==
    LET locals == area_read(aspect_ratio, megapixels, original_size, multiple, map)
    IN  IF locals.square THEN locals ELSE area_finish(aspect_ratio, locals)

\* ------------------------------------------------------------ inputs

\* numerators of the aspect ratios handed to the sizers: two portrait
\* ratios, the square one, and landscape ratios that share a bucket
AspectNumerators == {791, 792, AspectDen, 1082, 1083}
AspectRatios == {[n |-> k, d |-> AspectDen] : k \in AspectNumerators}
\* megapixels values, in pixels
Megapixels == {16384, 65536}
OriginalSizes == {<<300, 200>>, <<200, 300>>}
\* (n, d) of the values c * sqrt(n / d) handed to the rounder
Radicands == {<<1, 1>>, <<1, 4>>, <<2, 1>>, <<1, 3>>}
Values == {[c |-> c, n |-> r[1], d |-> r[2]] :
              c \in (-MaxValue) .. MaxValue, r \in Radicands}
Dims == (-MaxDim) .. MaxDim
\* the sizes handed to the interval adjuster
AdjustSizes == (((-1) .. MaxSide) \X ((-1) .. MaxSide))
                   \cup {<<100, 100>>, <<150, 120>>}
Workers == {"w1", "w2"}

\* ------------------------------------------------------------- state

VARIABLES
    alignment,   \* args.aspect_bucket_alignment
    cache,       \* StateTracker's aspect-resolution map
    call,        \* the last call that returned: op, args, ret
    returned,    \* every <<megapixels, ratio, target>> a non-square
                 \* area call has returned
    worker       \* per worker: where it is in the area sizer, its locals

vars == <<alignment, cache, call, returned, worker>>

Idle == [pc |-> "idle", args |-> None, locals |-> None]

Init ==
    /\ alignment \in Alignments
    /\ cache = <<>>
    /\ call = [op |-> "none", args |-> None, ret |-> None]
    /\ returned = {}
    /\ worker = [w \in Workers |-> Idle]

\* ---- one caller: every call runs to its return

AreaCall ==
    \E aspect_ratio \in AspectRatios, megapixels \in Megapixels,
       original_size \in OriginalSizes :
        \E ret \in {calculate_new_size_by_pixel_area(aspect_ratio, megapixels,
                       original_size, alignment, cache)} :
            /\ call' = [op   |-> "area",
                        args |-> [aspect_ratio  |-> aspect_ratio,
                                  megapixels    |-> megapixels,
                                  original_size |-> original_size],
                        ret  |-> ret]
            /\ cache' = area_write(megapixels, ret, cache)
            /\ returned' = IF ret.square THEN returned
                           ELSE returned \cup {<<megapixels, ret.ratio, ret.target>>}
            /\ UNCHANGED <<alignment, worker>>

EdgeCall ==
    \E aspect_ratio \in AspectRatios, resolution \in 1 .. MaxEdge,
       original_size \in OriginalSizes :
        /\ call' = [op   |-> "edge",
                    args |-> [aspect_ratio  |-> aspect_ratio,
                              resolution    |-> resolution,
                              original_size |-> original_size],
                    ret  |-> calculate_new_size_by_pixel_edge(aspect_ratio,
                                 resolution, original_size, alignment)]
        /\ UNCHANGED <<alignment, cache, returned, worker>>

Next == AreaCall \/ EdgeCall

Spec == Init /\ [][Next]_vars

\* ---- the pure helpers

RoundCall ==
    \E value \in Values :
        /\ call' = [op   |-> "round",
                    args |-> [value |-> value],
                    ret  |-> _round_to_nearest_multiple(value, alignment)]
        /\ UNCHANGED <<alignment, cache, returned, worker>>

AdjustCall ==
    \E initial \in AdjustSizes, target \in AdjustSizes :
        /\ call' = [op   |-> "adjust",
                    args |-> [initial_resolution |-> initial,
                              target_resolution  |-> target],
                    ret  |-> adjust_resolution_to_bucket_interval(initial, target)]
        /\ UNCHANGED <<alignment, cache, returned, worker>>

AspectCall ==
    \E width \in Dims, height \in Dims :
        /\ call' = [op   |-> "aspect",
                    args |-> [image |-> <<width, height>>],
                    ret  |-> calculate_image_aspect_ratio(<<width, height>>)]
        /\ UNCHANGED <<alignment, cache, returned, worker>>

NextPure == RoundCall \/ AdjustCall \/ AspectCall

SpecPure == Init /\ [][NextPure]_vars

\* ---- several workers: the cache read and the cache write of a call are
\* separate steps.  A worker's return value goes to its own caller; call
\* and returned record the calls of the single caller above only.

\* lines 109-164: a worker enters the area sizer, computes the target and
\* reads the cache; a square call returns at once.  Of its arguments the
\* rest of the call uses aspect_ratio and megapixels only.
AreaRead(w) ==
    /\ worker[w].pc = "idle"
    /\ \E aspect_ratio \in AspectRatios, megapixels \in Megapixels,
          original_size \in OriginalSizes :
        \E locals \in {area_read(aspect_ratio, megapixels, original_size,
                                 alignment, cache)} :
            /\ worker' = IF locals.square
                         THEN worker
                         ELSE [worker EXCEPT ![w] =
                                  [pc     |-> "read",
                                   args   |-> [aspect_ratio |-> aspect_ratio,
                                               megapixels   |-> megapixels],
                                   locals |-> locals]]
            /\ UNCHANGED <<alignment, cache, call, returned>>

\* lines 166-211: the worker overrides its target with what it has read,
\* repairs the intermediary, writes the cache if it has read nothing, and
\* returns
AreaWrite(w) ==
    /\ worker[w].pc = "read"
    /\ \E args \in {worker[w].args} :
       \E ret \in {area_finish(args.aspect_ratio, worker[w].locals)} :
           cache' = area_write(args.megapixels, ret, cache)
    /\ worker' = [worker EXCEPT ![w] = Idle]
    /\ UNCHANGED <<alignment, call, returned>>

NextWorkers == \E w \in Workers : AreaRead(w) \/ AreaWrite(w)

SpecWorkers == Init /\ [][NextWorkers]_vars

\* ------------------------------------------------------------ claims

IsArea == call.op = "area"
IsEdge == call.op = "edge"
Covers(intermediary, target) ==
    intermediary[1] >= target[1] /\ intermediary[2] >= target[2]
Aligned(x) == x > 0 /\ x % alignment = 0
AlignedSize(size) == Aligned(size[1]) /\ Aligned(size[2])

\* C1: every pair the area sizer returns, on a cache miss, on a cache hit
\* and in the square case, has an intermediary at least as wide and at
\* least as high as the target.
C1_AreaIntermediaryCoversTarget ==
    IsArea => Covers(call.ret.intermediary, call.ret.target)

\* C2: every pair the edge sizer returns has an intermediary at least as
\* wide and as high as the target; when rounding raised a dimension the
\* intermediary is the initial size plus the larger of the two
\* differences on both axes, otherwise it is the initial size.
C2_EdgeIntermediaryCoversTarget ==
    IsEdge =>
        LET initial == edge_initial_size(call.args.aspect_ratio,
                           call.args.resolution, call.args.original_size)
            target  == call.ret.target
            W_diff  == target[1] - initial[1]
            H_diff  == target[2] - initial[2]
            diff    == IF W_diff >= H_diff THEN W_diff ELSE H_diff
        IN  /\ Covers(call.ret.intermediary, target)
            /\ call.ret.intermediary =
                   IF W_diff > 0 \/ H_diff > 0
                   THEN <<initial[1] + diff, initial[2] + diff>>
                   ELSE initial

\* C2 witness: an edge call whose rounding raised the height only, so
\* that the width is grown by the height's difference
C2_Witness ==
    /\ IsEdge
    /\ LET initial == edge_initial_size(call.args.aspect_ratio,
                          call.args.resolution, call.args.original_size)
       IN  /\ call.ret.target[1] = initial[1]
           /\ call.ret.target[2] > initial[2]
           /\ call.ret.intermediary[1] > initial[1]

\* C3: two non-square area calls with the same megapixels that return the
\* same final aspect ratio return the same target.
C3_SameRatioSameTarget ==
    \A r1 \in returned, r2 \in returned :
        (r1[1] = r2[1] /\ r1[2] = r2[2]) => r1[3] = r2[3]

\* C3 witness: a cache hit gave a call the target of an earlier call,
\* which differs from the target the call computed itself
C3_Witness ==
    /\ IsArea
    /\ ~call.ret.square
    /\ call.ret.previously_stored_resolution # None
    /\ call.ret.target = call.ret.previously_stored_resolution
    /\ call.ret.computed # call.ret.target

\* C4: once a key of the cache maps to a size, no step of any worker
\* changes or removes that mapping.
C4_FirstWriteStays ==
    [][\A k \in DOMAIN cache : k \in DOMAIN cache' /\ cache'[k] = cache[k]]_vars

\* C5 as stated: the target and the intermediary of both sizers have
\* widths and heights that are positive multiples of the alignment.
C5_AllSizesAligned ==
    (IsArea \/ IsEdge) =>
        AlignedSize(call.ret.target) /\ AlignedSize(call.ret.intermediary)

\* C5 as amended: the target of both sizers, and every size in the cache,
\* has a width and a height that are positive multiples of the alignment.
C5_TargetsAligned ==
    /\ (IsArea \/ IsEdge) => AlignedSize(call.ret.target)
    /\ \A k \in DOMAIN cache : AlignedSize(cache[k])

\* C5 witness: a sizer returned an aligned target with an intermediary
\* that is not aligned
C5_Witness ==
    /\ IsArea \/ IsEdge
    /\ AlignedSize(call.ret.target)
    /\ ~AlignedSize(call.ret.intermediary)

\* C6: the interval adjuster adds d = max(0, target.w - initial.w,
\* target.h - initial.h) to both dimensions of initial, so that the result
\* is at least the target in both dimensions; ((100,100),(150,120)) gives
\* (150,150).
C6_AdjustAddsLargestDeficit ==
    call.op = "adjust" =>
        LET initial == call.args.initial_resolution
            target  == call.args.target_resolution
            W_diff  == target[1] - initial[1]
            H_diff  == target[2] - initial[2]
            larger  == IF W_diff >= H_diff THEN W_diff ELSE H_diff
            d       == IF larger > 0 THEN larger ELSE 0
        IN  /\ call.ret = <<initial[1] + d, initial[2] + d>>
            /\ Covers(call.ret, target)
            /\ (initial = <<100, 100>> /\ target = <<150, 120>>)
                   => call.ret = <<150, 150>>

\* C6 witness: both differences are positive and equal
C6_Witness ==
    /\ call.op = "adjust"
    /\ call.args.target_resolution[1] - call.args.initial_resolution[1] > 0
    /\ call.args.target_resolution[1] - call.args.initial_resolution[1]
           = call.args.target_resolution[2] - call.args.initial_resolution[2]
    /\ call.ret = call.args.target_resolution

\* 2 * value > s and 2 * value < s for a value c * sqrt(n / d)
TwiceValueAbove(value, s) ==
    IF value.c >= 0
    THEN s < 0 \/ 4 * value.c * value.c * value.n > s * s * value.d
    ELSE s < 0 /\ 4 * value.c * value.c * value.n < s * s * value.d
TwiceValueBelow(value, s) ==
    IF value.c >= 0
    THEN s > 0 /\ 4 * value.c * value.c * value.n < s * s * value.d
    ELSE s >= 0 \/ 4 * value.c * value.c * value.n > s * s * value.d

\* C7: the rounder returns a positive multiple of the alignment, at least
\* the alignment, and no other positive multiple is strictly closer to
\* the value.
C7_RoundIsNearestMultiple ==
    call.op = "round" =>
        /\ call.ret >= alignment
        /\ call.ret % alignment = 0
        /\ \A j \in 1 .. (2 * MaxValue + 2) :
              LET other == j * alignment
              IN  /\ other > call.ret
                        => ~TwiceValueAbove(call.args.value, call.ret + other)
                  /\ other < call.ret
                        => ~TwiceValueBelow(call.args.value, call.ret + other)

\* C7 witness: a value above one unit that is not a multiple is rounded
\* up to the next multiple
C7_Witness ==
    /\ call.op = "round"
    /\ call.args.value.c > 0
    /\ call.ret > alignment
    /\ TwiceValueBelow(call.args.value, 2 * call.ret)
    /\ TwiceValueAbove(call.args.value, 2 * call.ret - alignment)

\* C8: the aspect ratio calculator, given a pair with a zero height or a
\* zero or negative dimension, fails with an invalid-input error: it
\* neither divides by zero nor returns a ratio.
C8_NonPositiveDimensionsRejected ==
    (/\ call.op = "aspect"
     /\ call.args.image[1] <= 0 \/ call.args.image[2] <= 0)
        => call.ret.status = "InvalidInput"

\* C9: the intermediary a non-square area call returns is the one derived
\* from the target it returns: the constraining edge of that target, the
\* other edge scaled by the aspect ratio and truncated, then the repair.
C9_IntermediaryFromReturnedTarget ==
    (IsArea /\ ~call.ret.square) =>
        call.ret.intermediary =
            repaired_intermediary(call.ret.target,
                initial_intermediary(call.ret.target, call.args.aspect_ratio),
                call.args.aspect_ratio)

\* C10: every cache entry maps its key's ratio to a size of that rounded
\* ratio, and the ratio every area call returns is the rounded
\* width / height of the target it returns.
C10_RatioIsRatioOfTarget ==
    /\ \A k \in DOMAIN cache :
          calculate_image_aspect_ratio(cache[k]) = [status |-> "ok", ratio |-> k[2]]
    /\ IsArea =>
          calculate_image_aspect_ratio(call.ret.target)
              = [status |-> "ok", ratio |-> call.ret.ratio]

\* C10 witness: a cache hit on a cache of two entries returned a ratio
\* of a cached target the call did not compute
C10_Witness ==
    /\ IsArea
    /\ Cardinality(DOMAIN cache) >= 2
    /\ call.ret.previously_stored_resolution # None
    /\ call.ret.computed # call.ret.target
    /\ <<call.args.megapixels, call.ret.ratio>> \in DOMAIN cache

====
